---- MODULE Spec2Model ----
(***************************************************************************)
(* Front panel controller of the S21 amplifier (PIC16F870), main.c.        *)
(*                                                                         *)
(* One iteration of the process loop of main() is two steps: Debounce      *)
(* (sample the switches and run the bounce counter, lines 217-233) and     *)
(* one of the Process steps (act on a switch state change and wait out     *)
(* the 1 ms delay, lines 235-313).  PORTB and PORTC are the registers the  *)
(* statements of main() read and write, as 8-bit values; PORTA is an input *)
(* and holds the levels PollSwitches() found at the last sample.           *)
(***************************************************************************)
EXTENDS Integers, FiniteSets, Sequences, TLC

VARIABLES PORTA, PORTB, PORTC, SW_Sample, SW_Stable, SW_Changed, SW_BounceCount,
          pc, run, switched, accepted, lastPress, repeated, before

vars == <<PORTA, PORTB, PORTC, SW_Sample, SW_Stable, SW_Changed, SW_BounceCount,
          pc, run, switched, accepted, lastPress, repeated, before>>

(* ------------------------------------------------------------------ *)
(* Bounds                                                              *)
(* ------------------------------------------------------------------ *)

\* Length up to which a run of identical raw samples is counted.
MaxRun == 22

(* ------------------------------------------------------------------ *)
(* Program constants                                                   *)
(* ------------------------------------------------------------------ *)

SW_none == 0
SW_1 == 1
SW_2 == 2
SW_3 == 3
SW_4 == 4
SW_5 == 5
SW_6 == 6
SW_REC == 7

SelectSwitch_t == SW_none .. SW_REC

SW_EN_MASK == 7
SW_RECn_ASSERTED == 0
SW_RECn_RELEASED == 1

\* SW_BounceCount = 20
BounceTicks == 20

\* (1<<6) of PORTB, (1<<7) of PORTC, 0b00011111, 0b11100000
LED_REC_MASK == 64
LED_MUTEn_MASK == 128
REC_SRC_MASK == 31
REC_CLR_MASK == 224

(* ------------------------------------------------------------------ *)
(* 8-bit arithmetic                                                    *)
(* ------------------------------------------------------------------ *)

Byte == 0 .. 255

Pow2(n) == 2 ^ n

TestBit(x, n) == (x \div Pow2(n)) % 2 = 1

RECURSIVE BitAndN(_, _, _)
BitAndN(a, b, n) ==
    IF n = 0 THEN 0
    ELSE (IF a % 2 = 1 /\ b % 2 = 1 THEN 1 ELSE 0)
         + 2 * BitAndN(a \div 2, b \div 2, n - 1)

RECURSIVE BitOrN(_, _, _)
BitOrN(a, b, n) ==
    IF n = 0 THEN 0
    ELSE (IF a % 2 = 1 \/ b % 2 = 1 THEN 1 ELSE 0)
         + 2 * BitOrN(a \div 2, b \div 2, n - 1)

RECURSIVE BitXorN(_, _, _)
BitXorN(a, b, n) ==
    IF n = 0 THEN 0
    ELSE (IF (a % 2) # (b % 2) THEN 1 ELSE 0)
         + 2 * BitXorN(a \div 2, b \div 2, n - 1)

BitAnd(a, b) == BitAndN(a, b, 8)
BitOr(a, b) == BitOrN(a, b, 8)
BitXor(a, b) == BitXorN(a, b, 8)

(* ------------------------------------------------------------------ *)
(* Switch sampler                                                      *)
(* ------------------------------------------------------------------ *)

\* Values of PORTA that matter: RA0..RA2 the switch code, RA3 the record line.
PortALevels == 0 .. 15

SW_RECn(porta) == (porta \div 8) % 2

\* PollSwitches that looks at the record line first.
PollSwitchesRecordFirst(porta) ==
    LET code == BitAnd(porta, SW_EN_MASK)
    IN  IF SW_RECn(porta) = SW_RECn_ASSERTED THEN SW_REC
        ELSE IF code <= 5 THEN code + 1
        ELSE SW_none

\* PollSwitches without the case of code 0.
PollSwitchesNoCaseZero(porta) ==
    LET code == BitAnd(porta, SW_EN_MASK)
        Result == IF code \in 1 .. 5 THEN code + 1 ELSE SW_none
    IN  IF Result = SW_none
        THEN (IF SW_RECn(porta) = SW_RECn_ASSERTED THEN SW_REC ELSE SW_none)
        ELSE Result

\* The code on RA0..RA2 while the button of source k alone is down.
SwitchCode(k) == k - 1

\* The code while the buttons of sources a and b are both down: a line is
\* high only if both buttons leave it high (SW_2 with SW_3 reads as SW_1).
WiredCode(a, b) == BitAnd(SwitchCode(a), SwitchCode(b))

PollSwitches(porta) ==
    LET code == BitAnd(porta, SW_EN_MASK)
        Result == CASE code = 0 -> SW_1
                    [] code = 1 -> SW_2
                    [] code = 2 -> SW_3
                    [] code = 3 -> SW_4
                    [] code = 4 -> SW_5
                    [] code = 5 -> SW_6
                    [] OTHER -> SW_none
    IN  IF Result = SW_none
        THEN (IF SW_RECn(porta) = SW_RECn_ASSERTED THEN SW_REC ELSE SW_none)
        ELSE Result

(* ------------------------------------------------------------------ *)
(* Debounce                                                            *)
(* ------------------------------------------------------------------ *)

\* Reload that lets a running count go on when the sample changes again.
ReloadKeepsCount(sample, stable, count) ==
    IF sample # stable
    THEN [stable |-> sample,
          count |-> IF count # 0 THEN count ELSE BounceTicks]
    ELSE [stable |-> stable, count |-> count]

\* did switch state change: the sample becomes SW_Stable, the count restarts
Reload(sample, stable, count) ==
    IF sample # stable
    THEN [stable |-> sample, count |-> BounceTicks]
    ELSE [stable |-> stable, count |-> count]

\* has the switch been pressed for 20 milliseconds
CountDown(count, changed) ==
    IF count # 0
    THEN [count |-> count - 1,
          changed |-> IF count - 1 = 0 THEN 1 ELSE changed]
    ELSE [count |-> count, changed |-> changed]

(* ------------------------------------------------------------------ *)
(* Switch state change processing                                      *)
(* ------------------------------------------------------------------ *)

\* SelectInput that releases the mute when it selects another input.
SelectInputUnmutes(n, B, C) ==
    LET C1 == IF BitAnd(B, Pow2(n)) # 0
              THEN BitXor(C, LED_MUTEn_MASK)
              ELSE BitOr(C, LED_MUTEn_MASK)
        B1 == BitAnd(B, BitOr(Pow2(n), LED_REC_MASK))
        B2 == BitOr(B1, Pow2(n))
    IN  <<B2, C1>>

\* SelectInput whose mask drops the record mode indicator.
SelectInputDropsRec(n, B, C) ==
    LET C1 == IF BitAnd(B, Pow2(n)) # 0
              THEN BitXor(C, LED_MUTEn_MASK)
              ELSE C
        B1 == BitAnd(B, Pow2(n))
        B2 == BitOr(B1, Pow2(n))
    IN  <<B2, C1>>

\* SelectInput whose mute toggle takes the mask of the three high bits.
SelectInputWideToggle(n, B, C) ==
    LET C1 == IF BitAnd(B, Pow2(n)) # 0
              THEN BitXor(C, REC_CLR_MASK)
              ELSE C
        B1 == BitAnd(B, BitOr(Pow2(n), LED_REC_MASK))
        B2 == BitOr(B1, Pow2(n))
    IN  <<B2, C1>>

\* case SW_1 .. SW_5, and SW_6 out of record mode; n is the bit of the LED.
\* Yields <<PORTB, PORTC>>.
SelectInput(n, B, C) ==
    LET C1 == IF BitAnd(B, Pow2(n)) # 0
              THEN BitXor(C, LED_MUTEn_MASK)
              ELSE C
        B1 == BitAnd(B, BitOr(Pow2(n), LED_REC_MASK))
        B2 == BitOr(B1, Pow2(n))
    IN  <<B2, C1>>

\* TapeToggle that toggles the tape indicator alone.
TapeToggleTapeOnly(B, C) == BitXor(B, Pow2(5))

\* TapeToggle that lights the tape indicator and never puts it out.
TapeToggleSetsTape(B, C) ==
    BitOr(BitXor(B, BitAnd(C, REC_SRC_MASK)), Pow2(5))

\* case SW_6 in record mode: toggle between tape output and record source
TapeToggle(B, C) ==
    BitXor(BitXor(B, Pow2(5)), BitAnd(C, REC_SRC_MASK))

TapeSelect(B, C) ==
    IF TestBit(B, 6)
    THEN <<TapeToggle(B, C), C>>
    ELSE SelectInput(5, B, C)

\* the switch statement
SwitchCase(sw, B, C) ==
    CASE sw \in SW_1 .. SW_5 -> SelectInput(sw - 1, B, C)
      [] sw = SW_6 -> TapeSelect(B, C)
      [] OTHER -> <<B, C>>

\* RecToggle that only ever sets the record mode indicator.
RecToggleSets(sw, B) ==
    IF sw = SW_REC THEN BitOr(B, LED_REC_MASK) ELSE B

\* RecToggle that toggles on every change that is not a source button.
RecToggleNotSource(sw, B) ==
    IF sw \notin SW_1 .. SW_6 THEN BitXor(B, LED_REC_MASK) ELSE B

\* RecToggle that writes the record mode indicator and nothing else.
RecToggleAssigns(sw, B) ==
    IF sw = SW_REC
    THEN BitAnd(BitXor(B, LED_REC_MASK), LED_REC_MASK)
    ELSE B

\* LED_REC_TOGGLE() when SW_Stable == SW_REC
RecToggle(sw, B) ==
    IF sw = SW_REC THEN BitXor(B, LED_REC_MASK) ELSE B

\* RecCopy that lights the selected input and leaves the lit one lit.
RecCopyOrs(B, C) == BitOr(C, BitAnd(B, REC_SRC_MASK))

\* RecCopy that copies the indicators shifted by one.
RecCopyShifted(B, C) ==
    BitXor(C, BitAnd(BitXor(C, 2 * B), REC_SRC_MASK))

\* copy the selected input to the record indicators
RecCopy(B, C) ==
    BitXor(C,
           BitAnd(BitXor(C, B), REC_SRC_MASK))

\* RecFollow that leaves the record indicators lit out of record mode.
RecFollowNoClear(sw, B, C) ==
    IF sw # SW_6 /\ sw # SW_none
    THEN IF TestBit(B, 6)
         THEN (IF BitAnd(B, REC_SRC_MASK) # 0 THEN RecCopy(B, C) ELSE C)
         ELSE C
    ELSE C

\* RecFollow that acts on the source buttons and not on the record button.
RecFollowSourcesOnly(sw, B, C) ==
    IF sw \in SW_1 .. SW_5
    THEN IF TestBit(B, 6)
         THEN (IF BitAnd(B, REC_SRC_MASK) # 0 THEN RecCopy(B, C) ELSE C)
         ELSE BitAnd(C, REC_CLR_MASK)
    ELSE C

\* "On any switch press": yields PORTC
RecFollow(sw, B, C) ==
    IF sw # SW_6 /\ sw # SW_none
    THEN IF TestBit(B, 6)
         THEN (IF BitAnd(B, REC_SRC_MASK) # 0
               THEN RecCopy(B, C)
               ELSE C)
         ELSE BitAnd(C, REC_CLR_MASK)
    ELSE C

\* the body of if(SW_Changed), without the clearing of SW_Changed.
\* Yields <<PORTB, PORTC>>.
ProcessSwitch(sw, B, C) ==
    LET s1 == SwitchCase(sw, B, C)
        B2 == RecToggle(sw, s1[1])
        C2 == RecFollow(sw, B2, s1[2])
    IN  <<B2, C2>>

\* Processing that leaves SW_Changed as it found it.
KeepChanged(changed) == changed

\* SW_Changed = 0 at the end of the processing
ClearChanged(changed) == 0

(* ------------------------------------------------------------------ *)
(* The amplifier state the output lines show                           *)
(* ------------------------------------------------------------------ *)

Sources == 1 .. 6
RecSources == 1 .. 5

\* LED_IN1..LED_IN6 on RB0..RB5
LitSources(B) == {k \in Sources : TestBit(B, k - 1)}
\* LED_REC1..LED_REC5 on RC0..RC4
LitRecSources(C) == {k \in RecSources : TestBit(C, k - 1)}
\* MUTEn on RC7, active low
Muted(C) == ~TestBit(C, 7)
\* LED_REC on RB6
RecordMode(B) == TestBit(B, 6)
\* record mode with the tape output as the amplifier input
TapeMonitor(B) == TestBit(B, 6) /\ TestBit(B, 5)

AmplifierState(B, C) ==
    [activeSource |-> LitSources(B),
     muted |-> Muted(C),
     recordMode |-> RecordMode(B),
     recordSource |-> LitRecSources(C),
     tapeMonitor |-> TapeMonitor(B)]

activeSource == LitSources(PORTB)
muted == Muted(PORTC)
recordMode == RecordMode(PORTB)
recordSource == LitRecSources(PORTC)
tapeMonitor == TapeMonitor(PORTB)
amp == AmplifierState(PORTB, PORTC)

(* ------------------------------------------------------------------ *)
(* The program                                                         *)
(* ------------------------------------------------------------------ *)

\* A start with the mute line released.
InitUnmuted ==
    /\ PORTA \in PortALevels
    /\ PORTB = 0
    /\ PORTC = LED_MUTEn_MASK
    /\ SW_Sample = SW_none
    /\ SW_Stable = SW_none
    /\ SW_Changed = 0
    /\ SW_BounceCount = 0
    /\ pc = "poll"
    /\ run = 0
    /\ switched = FALSE
    /\ accepted = SW_none
    /\ lastPress = SW_none
    /\ repeated = FALSE
    /\ before = [activeSource |-> {}, muted |-> FALSE, recordMode |-> FALSE,
                 recordSource |-> {}, tapeMonitor |-> FALSE]

\* main() up to the process loop: PIC_Init() clears the ports; the pins of
\* PORTA are inputs and show any levels.
Init ==
    /\ PORTA \in PortALevels
    /\ PORTB = 0
    /\ PORTC = 0
    /\ SW_Sample = SW_none
    /\ SW_Stable = SW_none
    /\ SW_Changed = 0
    /\ SW_BounceCount = 0
    /\ pc = "poll"
    /\ run = 0
    /\ switched = FALSE
    /\ accepted = SW_none
    /\ lastPress = SW_none
    /\ repeated = FALSE
    /\ before = AmplifierState(0, 0)

\* Lines 217-233: sample the switches, run the bounce counter.
\* run counts the ticks the raw sample has kept its value; switched tells
\* that the run began with a change of the raw sample.
Debounce ==
    /\ pc = "poll"
    /\ \E porta \in PortALevels :
         LET sample == PollSwitches(porta)
             r == Reload(sample, SW_Stable, SW_BounceCount)
             c == CountDown(r.count, SW_Changed)
             same == run > 0 /\ sample = SW_Sample
         IN  /\ PORTA' = porta
             /\ SW_Sample' = sample
             /\ SW_Stable' = r.stable
             /\ SW_BounceCount' = c.count
             /\ SW_Changed' = c.changed
             /\ run' = IF same
                       THEN (IF run < MaxRun THEN run + 1 ELSE run)
                       ELSE 1
             /\ switched' = IF same THEN switched ELSE run > 0
    /\ pc' = "process"
    /\ UNCHANGED <<PORTB, PORTC, accepted, lastPress, repeated, before>>

\* Lines 235-308 with SW_Changed set, then the delay.
\* accepted is the switch state of the last change processed, lastPress the
\* last button processed, before the amplifier state it found and repeated
\* tells that the button processed before it was the same one.
Process(sw) ==
    /\ pc = "process"
    /\ SW_Changed # 0
    /\ SW_Stable = sw
    /\ LET s == ProcessSwitch(sw, PORTB, PORTC)
       IN  /\ PORTB' = s[1]
           /\ PORTC' = s[2]
    /\ SW_Changed' = ClearChanged(SW_Changed)
    /\ accepted' = sw
    /\ lastPress' = IF sw # SW_none THEN sw ELSE lastPress
    /\ repeated' = IF sw # SW_none THEN sw = lastPress ELSE repeated
    /\ before' = IF sw # SW_none THEN amp ELSE before
    /\ pc' = "poll"
    /\ UNCHANGED <<PORTA, SW_Sample, SW_Stable, SW_BounceCount, run,
                   switched>>

\* case SW_1 .. SW_5
ProcessSource ==
    /\ SW_Stable \in SW_1 .. SW_5
    /\ Process(SW_Stable)

\* case SW_6
ProcessTape ==
    /\ SW_Stable = SW_6
    /\ Process(SW_6)

\* SW_Stable == SW_REC
ProcessRecord ==
    /\ SW_Stable = SW_REC
    /\ Process(SW_REC)

\* default: a release, SW_none
ProcessRelease ==
    /\ SW_Stable = SW_none
    /\ Process(SW_none)

\* A loop that processes SW_Stable in every iteration, changed or not.
ProcessIdleActs ==
    /\ pc = "process"
    /\ SW_Changed = 0
    /\ LET s == ProcessSwitch(SW_Stable, PORTB, PORTC)
       IN  /\ PORTB' = s[1]
           /\ PORTC' = s[2]
    /\ pc' = "poll"
    /\ UNCHANGED <<PORTA, SW_Sample, SW_Stable, SW_Changed, SW_BounceCount,
                   run, switched, accepted, lastPress, repeated, before>>

\* Lines 235, 313: no switch state change, only the delay.
ProcessIdle ==
    /\ pc = "process"
    /\ SW_Changed = 0
    /\ pc' = "poll"
    /\ UNCHANGED <<PORTA, PORTB, PORTC, SW_Sample, SW_Stable, SW_Changed,
                   SW_BounceCount, run, switched, accepted, lastPress,
                   repeated, before>>

Next ==
    \/ Debounce
    \/ ProcessSource
    \/ ProcessTape
    \/ ProcessRecord
    \/ ProcessRelease
    \/ ProcessIdle

Spec == Init /\ [][Next]_vars

TypeOK ==
    /\ PORTA \in PortALevels
    /\ PORTB \in Byte
    /\ PORTC \in Byte
    /\ SW_Sample \in SelectSwitch_t
    /\ SW_Stable \in SelectSwitch_t
    /\ SW_Changed \in {0, 1}
    /\ SW_BounceCount \in 0 .. BounceTicks
    /\ pc \in {"poll", "process"}
    /\ run \in 0 .. MaxRun
    /\ switched \in BOOLEAN
    /\ accepted \in SelectSwitch_t
    /\ lastPress \in SelectSwitch_t
    /\ repeated \in BOOLEAN

(* ------------------------------------------------------------------ *)
(* Properties                                                          *)
(* ------------------------------------------------------------------ *)

\* The step about to be taken processes a debounced press of button sw.
Pressing(sw) == pc = "process" /\ SW_Changed # 0 /\ SW_Stable = sw

\* The last switch state change processed was the press of lastPress.
JustPressed == pc = "poll" /\ accepted = lastPress /\ lastPress # SW_none

\* The press being processed is of a source that is not the lit one.
PressingOther ==
    \E k \in Sources : Pressing(k) /\ k \notin activeSource

\* C1 as stated: a debounced press of Source k while the lit source
\* indicator is not k (none lit included) leaves the amplifier unmuted.
C1_AsStated == [][PressingOther => ~muted']_vars

\* C1 amended: a debounced press of Source k while the lit source indicator
\* is not k leaves the mute line as it was (muted stays muted, as after
\* power-up; unmuted stays unmuted).
C1_MutePreserved == [][PressingOther => muted' = muted]_vars

\* A source pressed while another (or none) was lit, the amplifier still muted.
C1_Witness ==
    /\ JustPressed
    /\ lastPress \in Sources
    /\ lastPress \notin before.activeSource
    /\ activeSource = {lastPress}
    /\ before.muted
    /\ muted

\* The press being processed is of the source k that is the active one.
PressingSame(k) == Pressing(k) /\ activeSource = {k}

\* The press toggles the mute and nothing else.
TogglesMuteOnly ==
    /\ muted' = ~muted
    /\ activeSource' = activeSource
    /\ recordMode' = recordMode
    /\ recordSource' = recordSource
    /\ tapeMonitor' = tapeMonitor

\* C2 as stated: a debounced press of Source k (tape included, record mode
\* on or off) while k is the active source toggles muted and leaves
\* activeSource, recordMode, recordSource and tapeMonitor unchanged.
C2_AsStated ==
    [][(\E k \in Sources : PressingSame(k)) => TogglesMuteOnly]_vars

\* The cases of C2 that hold: a non-tape source, or tape out of record mode.
PressingSameNoToggle ==
    \E k \in Sources : PressingSame(k) /\ (k = SW_6 => ~recordMode)

\* C2 amended: a debounced press of the active source k, for k in 1..5 in
\* any record mode and for tape while record mode is off, toggles muted and
\* leaves activeSource, recordMode, recordSource and tapeMonitor unchanged;
\* two such presses in a row restore the state before the first.
C2_SameSourceTogglesMute ==
    [][PressingSameNoToggle =>
          /\ TogglesMuteOnly
          /\ (/\ lastPress = SW_Stable
              /\ before.activeSource = activeSource
              /\ before.recordMode = recordMode) => amp' = before]_vars

\* The active non-tape source pressed again in record mode: mute toggled.
C2_Witness ==
    /\ JustPressed
    /\ lastPress \in SW_1 .. SW_5
    /\ before.activeSource = {lastPress}
    /\ before.recordMode
    /\ muted # before.muted
    /\ activeSource = {lastPress}

\* C3: a changed event is raised in a tick only if the raw sample of that
\* tick and of the 19 ticks before it are the same value (a run of fewer
\* than 20 identical samples raises none).
C3_NoiseRejected ==
    (pc = "process" /\ SW_Changed # 0) => run >= BounceTicks

\* A changed event raised on the 20th tick of a run.
C3_Witness ==
    pc = "process" /\ SW_Changed # 0 /\ run = BounceTicks /\ switched

\* C4: after the raw sample switched to a value and stayed, changed is
\* raised on the 20th tick of the run and on no other, and it is cleared
\* again within the tick that raised it.
C4_SinglePulse ==
    /\ (pc = "process" /\ switched) => (SW_Changed # 0 <=> run = BounceTicks)
    /\ pc = "poll" => SW_Changed = 0

\* A button held past its change event: no second event.
C4_Witness ==
    /\ pc = "process"
    /\ switched
    /\ run > BounceTicks
    /\ accepted = SW_Stable
    /\ SW_Stable # SW_none
    /\ SW_Changed = 0

\* C5 as stated: changed is raised only when the value accepted differs from
\* the value accepted before it (a button accepted, interrupted for fewer
\* than 20 ticks and held again raises no second event).
C5_AsStated ==
    (pc = "process" /\ SW_Changed # 0 /\ accepted # SW_none)
        => SW_Stable # accepted

\* C6: at most one of the six source indicators is lit.
C6_OneSourceLit == Cardinality(activeSource) <= 1

\* Tape pressed in record mode with a source lit: one indicator lit after it.
C6_Witness ==
    /\ JustPressed
    /\ lastPress = SW_6
    /\ before.recordMode
    /\ Cardinality(before.activeSource) = 1
    /\ before.activeSource # activeSource
    /\ Cardinality(activeSource) = 1

\* C7: at most one of the five record source indicators is lit, the copy of
\* the source indicators never carries the tape indicator (bit 5) over, and
\* none is lit while the record mode indicator is off.
C7_RecordIndicators ==
    /\ Cardinality(recordSource) <= 1
    /\ ~TestBit(PORTC, 5)
    /\ ~recordMode => recordSource = {}

\* Record mode left with a record source lit: the indicator is cleared.
C7_Witness ==
    /\ JustPressed
    /\ lastPress = SW_REC
    /\ before.recordMode
    /\ Cardinality(before.recordSource) = 1
    /\ ~recordMode
    /\ recordSource = {}

\* C8: a debounced Record press toggles recordMode; turned off, recordSource
\* is None; turned on, recordSource is the active source when that is one
\* of Source1..Source5 and None when it is tape or none.
C8_RecordPress ==
    [][Pressing(SW_REC) =>
          /\ recordMode' = ~recordMode
          /\ ~recordMode' => recordSource' = {}
          /\ recordMode' => recordSource' = activeSource \ {SW_6}]_vars

\* Record mode entered with a non-tape source active.
C8_Witness ==
    /\ JustPressed
    /\ lastPress = SW_REC
    /\ ~before.recordMode
    /\ recordMode
    /\ Cardinality(activeSource \ {SW_6}) = 1
    /\ recordSource = activeSource

\* The second of two Record presses with no other press between them.
PressingRecordAgain == Pressing(SW_REC) /\ lastPress = SW_REC

\* C9 as stated: two consecutive debounced Record presses restore the
\* amplifier state exactly.
C9_AsStated == [][PressingRecordAgain => amp' = before]_vars

\* C9 amended: two consecutive debounced Record presses restore activeSource,
\* muted, recordMode and tapeMonitor; they restore recordSource too, unless
\* the first found record mode on with the tape indicator lit and a record
\* source set, and then recordSource ends None.
C9_RecordTwice ==
    [][PressingRecordAgain =>
          /\ [amp' EXCEPT !.recordSource = {}]
               = [before EXCEPT !.recordSource = {}]
          /\ IF before.tapeMonitor /\ before.recordSource # {}
             THEN recordSource' = {}
             ELSE amp' = before]_vars

\* Record pressed twice in record mode with a source active: record mode
\* and the record source are back.
C9_Witness ==
    /\ JustPressed
    /\ lastPress = SW_REC
    /\ repeated
    /\ ~before.recordMode
    /\ recordMode
    /\ recordSource # {}
    /\ recordSource = activeSource

\* A debounced press of a non-tape source k in record mode.
PressingInRecord(k) == Pressing(k) /\ recordMode

\* C10 as stated: in record mode a debounced press of a non-tape source k
\* sets recordSource = k when tapeMonitor is off and leaves recordSource
\* unchanged when tapeMonitor is on.
C10_AsStated ==
    [][\A k \in RecSources :
          PressingInRecord(k) =>
             IF tapeMonitor THEN recordSource' = recordSource
                            ELSE recordSource' = {k}]_vars

\* C10 amended: in record mode a debounced press of a non-tape source k
\* sets recordSource = k, with tapeMonitor off or on.
C10_RecordFollows ==
    [][\A k \in RecSources :
          PressingInRecord(k) => recordSource' = {k}]_vars

\* A source pressed while the tape was monitored: the record source moved.
C10_Witness ==
    /\ JustPressed
    /\ lastPress \in RecSources
    /\ before.tapeMonitor
    /\ before.recordSource # {}
    /\ before.recordSource # {lastPress}
    /\ recordSource = {lastPress}

\* C11: in record mode a debounced tape press switches the amplifier between
\* the tape and the record source (record source lit: only tape lit after
\* it; tape lit with a record source: only that source lit after it), leaves
\* muted, recordMode and recordSource unchanged, and two tape presses in a
\* row restore the state before the first.
C11_TapeToggles ==
    [][(Pressing(SW_6) /\ recordMode) =>
          /\ (recordSource # {} /\ activeSource = recordSource)
                => activeSource' = {SW_6}
          /\ (recordSource # {} /\ activeSource = {SW_6})
                => activeSource' = recordSource
          /\ muted' = muted
          /\ recordMode' = recordMode
          /\ recordSource' = recordSource
          /\ (lastPress = SW_6 /\ before.recordMode) => amp' = before]_vars

\* Tape pressed twice in record mode: the record source is the input again.
C11_Witness ==
    /\ JustPressed
    /\ lastPress = SW_6
    /\ repeated
    /\ before.recordMode
    /\ before.activeSource = {SW_6}
    /\ recordSource # {}
    /\ activeSource = recordSource

\* The step about to be taken is part of a tick that raises no change: the
\* sampling of any tick, or the processing with SW_Changed clear.
NoChangeStep == pc = "poll" \/ (pc = "process" /\ SW_Changed = 0)

\* C12: in a tick in which changed is not raised no output line changes,
\* whatever the raw sample is.
C12_IdleTickKeepsOutputs ==
    [][NoChangeStep => (PORTB' = PORTB /\ PORTC' = PORTC /\ amp' = amp)]_vars

\* A tick without a change while the button of an unlit source is down.
C12_Witness ==
    /\ pc = "poll"
    /\ run > 0
    /\ SW_BounceCount # 0
    /\ SW_Sample \in Sources
    /\ SW_Sample \notin activeSource
    /\ activeSource # {}

\* C13: a debounced change to SW_none (a release held for 20 ticks) leaves
\* every output line and every field of the amplifier state unchanged.
C13_ReleaseIsNoPress ==
    [][Pressing(SW_none) =>
          (PORTB' = PORTB /\ PORTC' = PORTC /\ amp' = amp)]_vars

\* A release processed in record mode, after a press: the state is the one
\* the press left.
C13_Witness ==
    /\ pc = "poll"
    /\ accepted = SW_none
    /\ lastPress # SW_none
    /\ SW_Stable = SW_none
    /\ SW_BounceCount = 0
    /\ recordMode
    /\ activeSource # {}

\* The switch code and the record line of the last sample.
code == PORTA % 8
recn == PORTA \div 8

\* C14: PollSwitches returns Source(c+1) for a code c in 0..5 whatever the
\* record line is, Record for a code of 6 or 7 with the record line low and
\* None for a code of 6 or 7 with the record line high; sampling writes no
\* output.
C14_PollSwitches ==
    [][pc = "poll" =>
          /\ (code' \in 0 .. 5) => SW_Sample' = code' + 1
          /\ (code' \in 6 .. 7 /\ recn' = 0) => SW_Sample' = SW_REC
          /\ (code' \in 6 .. 7 /\ recn' = 1) => SW_Sample' = SW_none
          /\ PORTB' = PORTB
          /\ PORTC' = PORTC]_vars

\* The tape code sampled with the record button down: tape is returned.
C14_Witness ==
    /\ pc = "process"
    /\ code = 5
    /\ recn = SW_RECn_ASSERTED
    /\ SW_Sample = SW_6

\* The last sample found the code c, the one the buttons of the sources a
\* and b give when both are down.
SampledPair(a, b, c) == pc = "process" /\ a < b /\ code = c

\* C15 as stated: with two source buttons down and their codes ORed, the
\* sampler returns the lower numbered of the two.
C15_AsStated ==
    \A a, b \in Sources :
       SampledPair(a, b, BitOr(SwitchCode(a), SwitchCode(b)))
          => SW_Sample = a

\* C15 amended: with two source buttons down the code read is the AND of
\* their codes, and the sampler returns a source numbered no higher than
\* the lower of the two; it is the lower of the two exactly when the code of
\* the lower has no bit the code of the higher lacks.
C15_LowerNumberedWins ==
    \A a, b \in Sources :
       SampledPair(a, b, WiredCode(a, b)) =>
          /\ SW_Sample \in SW_1 .. a
          /\ SW_Sample = a
                <=> BitAnd(SwitchCode(a), SwitchCode(b)) = SwitchCode(a)

\* SW_2 and SW_3 down together: SW_1 is returned.
C15_Witness ==
    /\ pc = "process"
    /\ code = WiredCode(SW_2, SW_3)
    /\ SW_Sample = SW_1

\* C16: up to the first debounced button press no source indicator is lit,
\* the record mode and record source indicators are off and the mute is
\* enabled; the debounce state starts at SW_none with the count at 0, so as
\* long as every sample is SW_none no change is raised.
C16_PowerUp ==
    /\ lastPress = SW_none =>
          /\ activeSource = {}
          /\ ~recordMode
          /\ recordSource = {}
          /\ muted
          /\ PORTB = 0
    /\ (~switched /\ SW_Sample = SW_none) =>
          /\ SW_Stable = SW_none
          /\ SW_BounceCount = 0
          /\ SW_Changed = 0
          /\ lastPress = SW_none

\* The input idle since power-up for longer than the bounce time.
C16_Witness ==
    /\ pc = "process"
    /\ run > BounceTicks
    /\ ~switched
    /\ SW_Sample = SW_none
    /\ SW_Changed = 0
    /\ muted

\* C17: the motor drive lines RC6 (VOL+) and RC5 (VOL-) are never high: no
\* mute toggle, record source copy or record source clear sets bit 5 or
\* bit 6 of PORTC.
C17_MotorLinesLow == ~TestBit(PORTC, 6) /\ ~TestBit(PORTC, 5)

\* Mute toggled, record source copied and cleared again: the lines are low.
C17_Witness ==
    /\ JustPressed
    /\ lastPress = SW_REC
    /\ before.recordSource # {}
    /\ recordSource = {}
    /\ ~muted
    /\ ~TestBit(PORTC, 6)
    /\ ~TestBit(PORTC, 5)

\* C18: in record mode, when a non-tape source indicator is lit the record
\* source indicator of the same source is the one lit.
C18_RecordSourceIsInput ==
    (recordMode /\ activeSource \cap RecSources # {})
        => recordSource = activeSource

\* Back from the tape to the record source in record mode.
C18_Witness ==
    /\ JustPressed
    /\ lastPress = SW_6
    /\ before.tapeMonitor
    /\ recordMode
    /\ activeSource \cap RecSources # {}
    /\ recordSource = activeSource

\* C19 as stated: once a source indicator is lit, exactly one source
\* indicator is lit in every later state.
C19_AsStated ==
    [][Cardinality(activeSource) = 1
          => Cardinality(activeSource') = 1]_vars

\* C20: a debounced Record press leaves the source indicators and the mute
\* unchanged; a debounced press of a source button, tape included, leaves
\* the record mode indicator unchanged.
C20_Frames ==
    [][/\ Pressing(SW_REC) =>
             (activeSource' = activeSource /\ muted' = muted)
       /\ (\E k \in Sources : Pressing(k)) => recordMode' = recordMode]_vars

\* Record pressed with a source selected and the mute released.
C20_Witness ==
    /\ JustPressed
    /\ lastPress = SW_REC
    /\ before.activeSource # {}
    /\ activeSource = before.activeSource
    /\ ~before.muted
    /\ ~muted
    /\ recordMode # before.recordMode

====
